---------------------------- MODULE Spec2Model ----------------------------
(***************************************************************************)
(* A model of pvulgaris/bookkeeper: the write-back of categories into the  *)
(* Quicken SQLite database (src/bookkeeper/writer.py), alone and with two  *)
(* callers at once, the classification chain rules -> ML -> LLM            *)
(* (src/bookkeeper/classifier.py), the reading of transactions             *)
(* (src/bookkeeper/reader.py) and one run of the command line              *)
(* (src/bookkeeper/cli.py).                                                *)
(*                                                                         *)
(* Text is modelled as a sequence of one-character strings, so that        *)
(* str.lower(), str.strip() and the substring test are computed and not    *)
(* assumed.  Confidences are integers, in hundredths (0.95 is 95).         *)
(***************************************************************************)

EXTENDS Integers, Sequences, FiniteSets, TLC

VARIABLES
    db,        \* committed rows of ZCASHFLOWTRANSACTIONENTRY
    conn,      \* rows as seen inside the open connection, or Closed
    pc,        \* the writer: "idle", "batch" (inside update_categories) or
               \* "returned" (a call has just handed its result to the caller)
    updates,   \* update_categories: the updates dict, in insertion order
    idx,       \* update_categories: number of items already processed
    results,   \* update_categories: the results dict
    ret,       \* how the last finished write-back call ended
    client,    \* TransactionClassifier.client is set (an API key was given)
    cpc,       \* classify: "idle", "await" (a completion request is out),
               \* "tools" (in the tool loop), "search" (in _web_search), "done"
    txn,       \* classify: transaction
    avail,     \* classify: available_categories
    response,  \* _classify_with_llm: response
    tool_i,    \* _classify_with_llm: index of the tool invocation at hand
    tool_results, \* _classify_with_llm: tool_results of the round
    messages,  \* _classify_with_llm: messages
    attempt,   \* _web_search: attempt
    sleeps,    \* _web_search: the time.sleep calls made, in tenths of a second
    llmCalls,  \* number of messages.create calls of this classify call
    webCalls,  \* number of _web_search calls of this classify call
    mlCalls,   \* number of _classify_with_ml calls of this classify call
    cresult,   \* how classify ended
    exc,       \* the exception _classify_with_llm met, or "none"
    ztransaction, \* the reader: rows of ZTRANSACTION, by Z_PK
    rpc,       \* read_transactions: "idle" or "returned"
    query,     \* read_transactions: start_date and end_date
    transactions, \* read_transactions: the list returned
    mpc,       \* main: its position
    dry_run,   \* main: --dry-run
    db_at_start,  \* main: the linkage table when the run began
    backup,    \* main: the copy create_backup made, if any
    uncategorized, \* main: ids of the transactions to classify, in order
    suggestions,   \* main: the suggestions dict, as <<id, category>> in order
    procs,     \* concurrent write-back: each caller's position and locals
    lock       \* concurrent write-back: who holds SQLite's write lock

wvars == <<db, conn, pc, updates, idx, results, ret>>

cvars == <<client, cpc, txn, avail, response, tool_i, tool_results, messages,
           attempt, sleeps, llmCalls, webCalls, mlCalls, cresult, exc>>

rvars == <<ztransaction, rpc, query, transactions>>

mvars == <<mpc, dry_run, db_at_start, backup, uncategorized, suggestions>>

xvars == <<procs, lock>>

vars == <<wvars, cvars, rvars, mvars, xvars>>

\* what a step of one component leaves alone
notWriter == <<cvars, rvars, mvars, xvars>>

notClassifier == <<wvars, rvars, mvars, xvars>>

notReader == <<wvars, cvars, mvars, xvars>>

-----------------------------------------------------------------------------
(* Bounds of the model *)

\* transaction ids passed to the writer are 1..MaxTxnId; the last has no
\* ZTRANSACTION row
MaxTxnId == 2

\* largest number of items of one updates dict
MaxBatch == 2

\* largest number of tool rounds the completion service asks for in one
\* classification
MaxRounds == 2

\* rows of the ZTRANSACTION table the reader finds
MaxRows == 2

-----------------------------------------------------------------------------
(* Text *)

Upper == <<"A","B","C","D","E","F","G","H","I","J","K","L","M",
           "N","O","P","Q","R","S","T","U","V","W","X","Y","Z">>

LowerOf == <<"a","b","c","d","e","f","g","h","i","j","k","l","m",
             "n","o","p","q","r","s","t","u","v","w","x","y","z">>

\* str.lower() on one character
LowerChar(c) ==
    IF \E i \in 1..Len(Upper) : Upper[i] = c
    THEN LowerOf[CHOOSE i \in 1..Len(Upper) : Upper[i] = c]
    ELSE c

\* str.lower()
Lower(s) == [i \in 1..Len(s) |-> LowerChar(s[i])]

Groceries == <<"G","r","o","c","e","r","i","e","s">>

groceries == <<"g","r","o","c","e","r","i","e","s">>

Dining == <<"D","i","n","i","n","g">>

Transfer == <<"T","r","a","n","s","f","e","r">>

-----------------------------------------------------------------------------
(* The database *)

\* An Optional value and a nullable column are sets of at most one element:
\* None and NULL are the empty set.
None == {}

NULL == {}

Some(x) == {x}

The(o) == CHOOSE x \in o : TRUE

Closed == "Closed"

\* ZTAG: the label table.  Transfer is a system label, not user-assignable.
ZTAG ==
    { [Z_PK |-> 10, ZNAME |-> Groceries, ZUSERASSIGNABLE |-> 1],
      [Z_PK |-> 11, ZNAME |-> Dining,    ZUSERASSIGNABLE |-> 1],
      [Z_PK |-> 12, ZNAME |-> Transfer,  ZUSERASSIGNABLE |-> 0] }

\* ZTRANSACTION: ids 1..MaxTxnId-1, amounts in cents
ZTRANSACTION ==
    { [Z_PK |-> i, ZAMOUNT |-> 1500 * i - 4000] : i \in 1..(MaxTxnId - 1) }

TxnIds == 1..MaxTxnId

\* category names a caller passes: two assignable labels, a label spelled in
\* another case, and a label that is not user-assignable
CategoryNames == {Groceries, Dining, groceries, Transfer}

\* the linkage rows a database may hold before write-back: per transaction
\* none, or one row, uncategorized or tagged with the system label
InitialRow(t, tag) ==
    [Z_PK |-> 2 * t.Z_PK, ZPARENT |-> t.Z_PK, ZAMOUNT |-> t.ZAMOUNT,
     ZCATEGORYTAG |-> tag]

InitialDBs ==
    { { InitialRow(t, f[t]) : t \in S } :
        f \in [ZTRANSACTION -> {NULL, Some(12)}], S \in SUBSET ZTRANSACTION }

\* an updates dict: distinct keys, in insertion order
RECURSIVE SeqsUpTo(_, _)
SeqsUpTo(S, n) ==
    IF n = 0 THEN {<<>>}
    ELSE LET shorter == SeqsUpTo(S, n - 1)
         IN  shorter \cup { Append(s, x) : s \in {q \in shorter : Len(q) = n - 1}, x \in S }

UpdateDicts ==
    { u \in SeqsUpTo(TxnIds \X CategoryNames, MaxBatch) :
        /\ Len(u) >= 1
        /\ \A i, j \in 1..Len(u) : u[i][1] = u[j][1] => i = j }

-----------------------------------------------------------------------------
(* QuickenWriter *)

\* as if ZNAME were compared with COLLATE NOCASE
_get_category_id_nocase(category_name) ==
    LET rows == { t \in ZTAG : /\ Lower(t.ZNAME) = Lower(category_name)
                               /\ t.ZUSERASSIGNABLE = 1 }
    IN  IF rows = {} THEN None ELSE Some((CHOOSE t \in rows : TRUE).Z_PK)

\* SELECT Z_PK FROM ZTAG WHERE ZNAME = ? AND ZUSERASSIGNABLE = 1; fetchone
_get_category_id(category_name) ==
    LET rows == { t \in ZTAG : t.ZNAME = category_name /\ t.ZUSERASSIGNABLE = 1 }
    IN  IF rows = {} THEN None ELSE Some((CHOOSE t \in rows : TRUE).Z_PK)

\* SELECT MAX(Z_PK) FROM ZCASHFLOWTRANSACTIONENTRY ... or 0
MaxPk(c) ==
    IF c = {} THEN 0
    ELSE CHOOSE m \in { r.Z_PK : r \in c } : \A r \in c : r.Z_PK <= m

\* SELECT ZAMOUNT FROM ZTRANSACTION WHERE Z_PK = ? ... else 0
AmountOf(transaction_id) ==
    LET rows == { t \in ZTRANSACTION : t.Z_PK = transaction_id }
    IN  IF rows = {} THEN 0 ELSE (CHOOSE t \in rows : TRUE).ZAMOUNT

\* INSERT INTO ZCASHFLOWTRANSACTIONENTRY (Z_PK, ..., ZPARENT, ZAMOUNT, ...)
InsertEntry(c, transaction_id) ==
    LET new_pk == MaxPk(c) + 1
    IN  [rows |-> c \cup { [Z_PK |-> new_pk, ZPARENT |-> transaction_id,
                            ZAMOUNT |-> AmountOf(transaction_id),
                            ZCATEGORYTAG |-> NULL] },
         pk |-> new_pk]

_get_or_create_always_inserts(c, transaction_id) ==
    InsertEntry(c, transaction_id)

_get_or_create_looks_up_by_pk(c, transaction_id) ==
    LET found == { r \in c : r.Z_PK = transaction_id }
    IN  IF found # {}
        THEN [rows |-> c, pk |-> (CHOOSE r \in found : TRUE).Z_PK]
        ELSE InsertEntry(c, transaction_id)

\* the rows after the call, and the Z_PK it returns
_get_or_create_cashflow_entry(c, transaction_id) ==
    LET found == { r \in c : r.ZPARENT = transaction_id }
    IN  IF found # {}
        THEN [rows |-> c, pk |-> (CHOOSE r \in found : TRUE).Z_PK]
        ELSE InsertEntry(c, transaction_id)

\* UPDATE ZCASHFLOWTRANSACTIONENTRY SET ZCATEGORYTAG = ? WHERE Z_PK = ?
SetCategoryTag(c, category_id, cashflow_entry_id) ==
    { IF r.Z_PK = cashflow_entry_id
      THEN [r EXCEPT !.ZCATEGORYTAG = Some(category_id)]
      ELSE r : r \in c }

\* one resolved item: get or create the linkage row, then set its tag
ApplyUpdate(c, transaction_id, category_id) ==
    LET e == _get_or_create_cashflow_entry(c, transaction_id)
    IN  SetCategoryTag(e.rows, category_id, e.pk)

NoRet == [op |-> "none"]

\* the previous call was the same successful update_category call
Again(transaction_id, category_name) ==
    /\ pc = "returned"
    /\ ret.op = "update_category"
    /\ ret.status = "returned"
    /\ ret.args = <<transaction_id, category_name>>
    /\ ret.value = TRUE

\* a call may start when no call is running; the record of a finished
\* update_category call is kept over the next update_category call only
CanCallUpdateCategory ==
    pc = "idle" \/ (pc = "returned" /\ ret.op = "update_category")

\* update_category, run to its return
UpdateCategory(transaction_id, category_name) ==
    /\ CanCallUpdateCategory
    /\ pc' = "returned"
    /\ LET category_id == _get_category_id(category_name)
           after == IF category_id = None THEN db
                    ELSE ApplyUpdate(db, transaction_id, The(category_id))
       IN  /\ db' = after
           /\ ret' = [op |-> "update_category", status |-> "returned",
                      args |-> <<transaction_id, category_name>>,
                      value |-> (category_id # None), before |-> db,
                      again |-> Again(transaction_id, category_name)]
    /\ UNCHANGED <<conn, updates, idx, results, notWriter>>

\* update_category, when a statement or the commit raises sqlite3.Error:
\* the finally clause closes the connection and nothing was committed
UpdateCategoryRaises(transaction_id, category_name) ==
    /\ CanCallUpdateCategory
    /\ pc' = "returned"
    /\ db' = db
    /\ ret' = [op |-> "update_category", status |-> "raised",
               args |-> <<transaction_id, category_name>>,
               value |-> "exception", before |-> db,
               again |-> Again(transaction_id, category_name)]
    /\ UNCHANGED <<conn, updates, idx, results, notWriter>>

\* update_categories: connect, results = {}
UpdateCategoriesBegin(u) ==
    /\ pc = "idle"
    /\ pc' = "batch"
    /\ conn' = db
    /\ updates' = u
    /\ idx' = 0
    /\ results' = <<>>
    /\ UNCHANGED <<db, ret, notWriter>>

\* results[transaction_id] = value
DictSet(d, k, v) == [x \in DOMAIN d \cup {k} |-> IF x = k THEN v ELSE d[x]]

\* as if an unresolved name ended the loop (break for continue)
UpdateCategoriesItem_breaks ==
    /\ pc = "batch"
    /\ idx < Len(updates)
    /\ LET transaction_id == updates[idx + 1][1]
           category_name == updates[idx + 1][2]
           category_id == _get_category_id(category_name)
       IN  /\ conn' = IF category_id = None THEN conn
                      ELSE ApplyUpdate(conn, transaction_id, The(category_id))
           /\ results' = DictSet(results, transaction_id, category_id # None)
           /\ idx' = IF category_id = None THEN Len(updates) ELSE idx + 1
    /\ UNCHANGED <<db, pc, updates, ret, notWriter>>

\* update_categories: one iteration of the for loop
UpdateCategoriesItem ==
    /\ pc = "batch"
    /\ idx < Len(updates)
    /\ LET transaction_id == updates[idx + 1][1]
           category_name == updates[idx + 1][2]
           category_id == _get_category_id(category_name)
       IN  /\ conn' = IF category_id = None THEN conn
                      ELSE ApplyUpdate(conn, transaction_id, The(category_id))
           /\ results' = DictSet(results, transaction_id, category_id # None)
    /\ idx' = idx + 1
    /\ UNCHANGED <<db, pc, updates, ret, notWriter>>

\* update_categories: conn.commit(); return results; finally conn.close()
UpdateCategoriesCommit ==
    /\ pc = "batch"
    /\ idx = Len(updates)
    /\ db' = conn
    /\ ret' = [op |-> "update_categories", status |-> "returned",
               args |-> updates, value |-> results, before |-> db,
               again |-> FALSE]
    /\ pc' = "returned"
    /\ conn' = Closed
    /\ updates' = <<>>
    /\ idx' = 0
    /\ results' = <<>>
    /\ UNCHANGED notWriter

UpdateCategoriesRaises_commits_in_finally ==
    /\ pc = "batch"
    /\ db' = conn
    /\ ret' = [op |-> "update_categories", status |-> "raised",
               args |-> updates, value |-> conn, before |-> db,
               again |-> FALSE]
    /\ pc' = "returned"
    /\ conn' = Closed
    /\ updates' = <<>>
    /\ idx' = 0
    /\ results' = <<>>
    /\ UNCHANGED notWriter

\* update_categories, when a statement of an iteration or the commit raises
\* sqlite3.Error: there is no except clause, the finally clause closes the
\* connection without a commit, and what the connection wrote is rolled
\* back.  ret.value keeps the rows that were lost.
UpdateCategoriesRaises ==
    /\ pc = "batch"
    /\ db' = db
    /\ ret' = [op |-> "update_categories", status |-> "raised",
               args |-> updates, value |-> conn, before |-> db,
               again |-> FALSE]
    /\ pc' = "returned"
    /\ conn' = Closed
    /\ updates' = <<>>
    /\ idx' = 0
    /\ results' = <<>>
    /\ UNCHANGED notWriter

\* the caller takes the result of the finished call and goes on
CallerContinues ==
    /\ pc = "returned"
    /\ pc' = "idle"
    /\ ret' = NoRet
    /\ UNCHANGED <<db, conn, updates, idx, results, notWriter>>

-----------------------------------------------------------------------------
(* TransactionClassifier: text and the rule table *)

Uncategorized == <<"U","n","c","a","t","e","g","o","r","i","z","e","d">>

DINING == <<"D","I","N","I","N","G">>

dining == <<"d","i","n","i","n","g">>

Travel == <<"T","r","a","v","e","l">>

EmptyStr == <<>>

\* str.strip(): what it removes at both ends
Whitespace == {" ", "\t", "\n", "\r"}

RECURSIVE LStrip(_)
LStrip(s) ==
    IF s # <<>> /\ Head(s) \in Whitespace THEN LStrip(Tail(s)) ELSE s

RECURSIVE RStrip(_)
RStrip(s) ==
    IF s # <<>> /\ s[Len(s)] \in Whitespace
    THEN RStrip(SubSeq(s, 1, Len(s) - 1))
    ELSE s

\* str.strip()
Strip(s) == RStrip(LStrip(s))

\* pattern in text
IsSubstring(pattern, text) ==
    \E i \in 0..(Len(text) - Len(pattern)) :
        SubSeq(text, i + 1, i + Len(pattern)) = pattern

\* x in available_categories
InList(x, list) == \E i \in 1..Len(list) : list[i] = x

GasAndFuel == <<"G","a","s"," ","&"," ","F","u","e","l">>

CoffeeShops == <<"C","o","f","f","e","e"," ","S","h","o","p","s">>

FastFood == <<"F","a","s","t"," ","F","o","o","d">>

Restaurants == <<"R","e","s","t","a","u","r","a","n","t","s">>

AutoAndTransport == <<"A","u","t","o"," ","&"," ","T","r","a","n","s","p","o","r","t">>

PublicTransportation == <<"P","u","b","l","i","c"," ","T","r","a","n","s","p","o","r","t","a","t","i","o","n">>

Entertainment == <<"E","n","t","e","r","t","a","i","n","m","e","n","t">>

Books == <<"B","o","o","k","s">>

Shopping == <<"S","h","o","p","p","i","n","g">>

ElectronicsAndSoftware == <<"E","l","e","c","t","r","o","n","i","c","s"," ","&"," ","S","o","f","t","w","a","r","e">>

Gym == <<"G","y","m">>

AirTravel == <<"A","i","r"," ","T","r","a","v","e","l">>

\* _load_default_rules: the dict, in insertion order, as (pattern, category)
_load_default_rules ==
    << <<<<"w","h","o","l","e"," ","f","o","o","d","s">>, Groceries>>,
       <<<<"t","r","a","d","e","r"," ","j","o","e">>, Groceries>>,
       <<<<"s","a","f","e","w","a","y">>, Groceries>>,
       <<<<"s","t","o","p"," ","&"," ","s","h","o","p">>, Groceries>>,
       <<<<"c","o","s","t","c","o">>, Groceries>>,
       <<<<"t","a","r","g","e","t">>, Groceries>>,
       <<<<"w","a","l","m","a","r","t">>, Groceries>>,
       <<<<"w","e","g","m","a","n","s">>, Groceries>>,
       <<<<"k","r","o","g","e","r">>, Groceries>>,
       <<<<"p","u","b","l","i","x">>, Groceries>>,
       <<<<"s","h","e","l","l">>, GasAndFuel>>,
       <<<<"c","h","e","v","r","o","n">>, GasAndFuel>>,
       <<<<"e","x","x","o","n">>, GasAndFuel>>,
       <<<<"m","o","b","i","l">>, GasAndFuel>>,
       <<<<"b","p"," ">>, GasAndFuel>>,
       <<<<"t","e","x","a","c","o">>, GasAndFuel>>,
       <<<<"a","r","c","o">>, GasAndFuel>>,
       <<<<"s","t","a","r","b","u","c","k","s">>, CoffeeShops>>,
       <<<<"d","u","n","k","i","n">>, CoffeeShops>>,
       <<<<"m","c","d","o","n","a","l","d">>, FastFood>>,
       <<<<"b","u","r","g","e","r"," ","k","i","n","g">>, FastFood>>,
       <<<<"w","e","n","d","y">>, FastFood>>,
       <<<<"t","a","c","o"," ","b","e","l","l">>, FastFood>>,
       <<<<"k","f","c">>, FastFood>>,
       <<<<"c","h","i","c","k","-","f","i","l","-","a">>, FastFood>>,
       <<<<"f","i","v","e"," ","g","u","y","s">>, FastFood>>,
       <<<<"s","h","a","k","e"," ","s","h","a","c","k">>, FastFood>>,
       <<<<"c","h","i","p","o","t","l","e">>, Restaurants>>,
       <<<<"p","a","n","e","r","a">>, Restaurants>>,
       <<<<"s","u","b","w","a","y">>, FastFood>>,
       <<<<"u","b","e","r">>, AutoAndTransport>>,
       <<<<"l","y","f","t">>, AutoAndTransport>>,
       <<<<"m","t","a">>, PublicTransportation>>,
       <<<<"n","e","t","f","l","i","x">>, Entertainment>>,
       <<<<"h","u","l","u">>, Entertainment>>,
       <<<<"s","p","o","t","i","f","y">>, Entertainment>>,
       <<<<"p","a","t","r","e","o","n">>, Entertainment>>,
       <<<<"s","u","b","s","t","a","c","k">>, Books>>,
       <<<<"p","a","r","e","n","t","d","a","t","a">>, Books>>,
       <<<<"a","m","a","z","o","n">>, Shopping>>,
       <<<<"a","p","p","l","e",".","c","o","m">>, ElectronicsAndSoftware>>,
       <<<<"p","e","l","o","t","o","n">>, Gym>>,
       <<<<"u","p","s">>, Shopping>>,
       <<<<"u","s","p","s">>, Shopping>>,
       <<<<"f","e","d","e","r","a","l"," ","e","x","p","r","e","s","s">>, Shopping>>,
       <<<<"f","e","d","e","x">>, Shopping>>,
       <<<<"u","n","i","t","e","d"," ","a","i","r","l","i","n","e","s">>, AirTravel>>,
       <<<<"j","e","t","b","l","u","e">>, AirTravel>>,
       <<<<"a","l","a","s","k","a"," ","a","i","r">>, AirTravel>>,
       <<<<"s","o","u","t","h","w","e","s","t">>, AirTravel>>,
       <<<<"d","e","l","t","a">>, AirTravel>>,
       <<<<"a","m","e","r","i","c","a","n"," ","a","i","r","l","i","n","e","s">>, AirTravel>>,
       <<<<"s","o","u","v","e","n","i","r">>, CoffeeShops>>,
       <<<<"b","a","r","n","e","y","s"," ","g","o","u","r","m","e","t">>, Restaurants>>,
       <<<<"r","i","c","k"," ","a","n","d"," ","a","n","n">>, Restaurants>>,
       <<<<"t","i","m","e","l","e","s","s"," ","c","o","f","f">>, CoffeeShops>>,
       <<<<"l","a"," ","f","a","r","i","n","e">>, Restaurants>>,
       <<<<"z","i","p","c","a","r">>, AutoAndTransport>> >>

\* self.ml_model = None: no trained model is ever loaded
ml_model == None

\* as if the last matching pattern of the table won
_apply_rules_last_match(rules, transaction) ==
    LET payee_lower == Lower(transaction.payee)
        hits == { i \in 1..Len(rules) : IsSubstring(rules[i][1], payee_lower) }
    IN  IF hits = {} THEN None
        ELSE Some(rules[CHOOSE i \in hits : \A j \in hits : i >= j][2])

\* _apply_rules: the category of the first pattern, in dict order, that is a
\* substring of the lower-cased payee; None when there is none
_apply_rules(rules, transaction) ==
    LET payee_lower == Lower(transaction.payee)
        hits == { i \in 1..Len(rules) : IsSubstring(rules[i][1], payee_lower) }
    IN  IF hits = {} THEN None
        ELSE Some(rules[CHOOSE i \in hits : \A j \in hits : i <= j][2])

\* _classify_with_ml: the stub returns ("Uncategorized", 0.0)
_classify_with_ml(transaction, available_categories) == <<Uncategorized, 0>>

-----------------------------------------------------------------------------
(* TransactionClassifier: what classify is called with *)

\* payees: one that a rule matches, one that two rules match (shell is listed
\* before starbucks), the reader's default for a missing payee, and one that
\* no rule matches
Payees ==
    { <<"S","A","F","E","W","A","Y"," ","#","1","2","3","4">>,
      <<"S","t","a","r","b","u","c","k","s"," ","S","h","e","l","l">>,
      <<"U","n","k","n","o","w","n">>,
      <<"S","Q"," ","*","B","L","U","E"," ","B","O","T","T","L","E">> }

\* Transaction.category: Optional[str]
ExistingCategories == {None, Some(EmptyStr), Some(Uncategorized), Some(Dining)}

\* a Transaction as QuickenReader.read_transactions builds it: the dataclass
\* has no account_name, account_type or fi_note attribute
ReaderTransactions ==
    [payee : Payees, category : ExistingCategories, account_fields : {FALSE}]

\* a Transaction that carries account_name, account_type and fi_note
RichTransactions ==
    [payee : Payees, category : ExistingCategories, account_fields : {TRUE}]

Transactions == ReaderTransactions \cup RichTransactions

\* available_categories, as get_all_categories orders them; the second list
\* holds two spellings of one name and lacks Groceries
CategoryLists == { <<Dining, Groceries>>, <<DINING, Dining, Travel>> }

-----------------------------------------------------------------------------
(* The completion service: the responses messages.create may return *)

\* A JSON value of the answer: a string, a number (in hundredths), a string
\* that spells a number, null, true, or the key is missing.
JStr(s) == [t |-> "string", s |-> s, n |-> 0]

JNum(n) == [t |-> "number", s |-> <<>>, n |-> n]

JNumStr(n) == [t |-> "numeric string", s |-> <<>>, n |-> n]

JNull == [t |-> "null", s |-> <<>>, n |-> 0]

JTrue == [t |-> "true", s |-> <<>>, n |-> 0]

JMissing == [t |-> "missing", s |-> <<>>, n |-> 0]

AnswerCategories ==
    { JStr(Groceries), JStr(<<" ">> \o groceries \o <<"\n">>), JStr(dining),
      JStr(Dining), JStr(Gym), JStr(EmptyStr), JNull, JMissing }

AnswerConfidences ==
    { JNum(0 - 50), JNum(0), JNum(90), JNum(100), JNum(150), JNumStr(90),
      JStr(<<"h","i","g","h">>), JNull, JTrue, JMissing }

\* the text of a text block, by what json.loads("{" + text) makes of it
Texts ==
    { [json |-> "invalid", category |-> JMissing, confidence |-> JMissing] }
    \cup [json : {"object"}, category : AnswerCategories,
          confidence : AnswerConfidences]

TextBlock(text) == [type |-> "text", text |-> text, id |-> 0, has_query |-> FALSE]

ToolUseBlock(id, has_query) ==
    [type |-> "tool_use", text |-> [json |-> "invalid", category |-> JMissing,
                                    confidence |-> JMissing],
     id |-> id, has_query |-> has_query]

\* final answers: one text block, or no text block at all
FinalResponses ==
    { [stop_reason |-> "end_turn", content |-> <<TextBlock(x)>>] : x \in Texts }
    \cup { [stop_reason |-> "end_turn", content |-> <<>>] }

\* responses that stop for tool use: one or two invocations, an invocation
\* without a query, a second invocation without a query, and a response that
\* stops for tool use but holds no invocation
ToolUseResponses ==
    { [stop_reason |-> "tool_use", content |-> c] :
        c \in { <<ToolUseBlock(1, TRUE)>>,
                <<TextBlock([json |-> "invalid", category |-> JMissing,
                             confidence |-> JMissing]),
                  ToolUseBlock(1, TRUE), ToolUseBlock(2, TRUE)>>,
                <<ToolUseBlock(1, FALSE)>>,
                <<ToolUseBlock(1, TRUE), ToolUseBlock(2, FALSE)>>,
                <<TextBlock([json |-> "object", category |-> JStr(Groceries),
                             confidence |-> JNum(90)])>> } }

-----------------------------------------------------------------------------
(* TransactionClassifier._classify_with_llm: the pure parts *)

\* _web_search(query, max_retries=3)
max_retries == 3

Sentinel == <<Uncategorized, 0>>

NoText == [json |-> "invalid", category |-> JMissing, confidence |-> JMissing]

NoResponse == [stop_reason |-> "none", content |-> <<>>]

\* [block for block in response.content if block.type == "tool_use"]
tool_use_blocks(r) == SelectSeq(r.content, LAMBDA b : b.type = "tool_use")

\* the text of the first block that has one, stripped; "" when there is
\* none, and "{" + "" does not parse
response_text(r) ==
    LET texts == SelectSeq(r.content, LAMBDA b : b.type = "text")
    IN  IF texts = <<>> THEN NoText ELSE texts[1].text

\* float(x): the number, or the exception it raises
float(x) ==
    CASE x.t = "number" -> [exc |-> "none", n |-> x.n]
      [] x.t = "numeric string" -> [exc |-> "none", n |-> x.n]
      [] x.t = "true" -> [exc |-> "none", n |-> 100]
      [] x.t = "string" -> [exc |-> "ValueError", n |-> 0]
      [] OTHER -> [exc |-> "TypeError", n |-> 0]

\* data.get(key, default)
DictGet(v, default) == IF v.t = "missing" THEN default ELSE v

FirstMatchIgnoringCase(category, available_categories) ==
    LET hits == { i \in 1..Len(available_categories) :
                    Lower(available_categories[i]) = Lower(category) }
    IN  IF hits = {} THEN None
        ELSE Some(available_categories[CHOOSE i \in hits : \A j \in hits : i <= j])

\* as if the case-insensitive match returned the answer's own spelling
MatchCategory_returns_answer(category, available_categories) ==
    IF InList(category, available_categories) THEN Some(category)
    ELSE IF FirstMatchIgnoringCase(category, available_categories) # None
         THEN Some(category)
         ELSE None

\* the validation of the category against available_categories: the
\* category itself, else the first entry equal to it ignoring case, else None
MatchCategory(category, available_categories) ==
    IF InList(category, available_categories) THEN Some(category)
    ELSE FirstMatchIgnoringCase(category, available_categories)

\* the inner try block: json.loads, the two fields, the validation.
\* An outcome is the exception raised, or "none" and the value returned.
ParseAnswer(text, available_categories) ==
    IF text.json = "invalid" THEN [exc |-> "JSONDecodeError", value |-> <<>>]
    ELSE LET c == DictGet(text.category, JStr(EmptyStr))
             f == float(DictGet(text.confidence, JNum(0)))
         IN  IF c.t # "string" THEN [exc |-> "AttributeError", value |-> <<>>]
             ELSE IF f.exc # "none" THEN [exc |-> f.exc, value |-> <<>>]
             ELSE LET m == MatchCategory(Strip(c.s), available_categories)
                  IN  [exc |-> "none",
                       value |-> IF m # None THEN <<The(m), f.n>> ELSE Sentinel]

\* except (json.JSONDecodeError, ValueError, KeyError)
InnerCaught == {"JSONDecodeError", "ValueError", "KeyError"}

OuterCaught_same_as_inner == InnerCaught

\* except Exception: every exception a failure of this path raises
OuterCaught ==
    {"JSONDecodeError", "ValueError", "KeyError", "TypeError",
     "AttributeError", "APIConnectionError"}

\* an exception raised outside the inner try meets the outer handler only
HandleOuter(e) ==
    IF e \in OuterCaught THEN [status |-> "returned", value |-> Sentinel]
    ELSE [status |-> "raised", value |-> <<>>]

\* an exception raised inside the inner try meets the inner handler first
HandleInner(e) ==
    IF e \in InnerCaught THEN [status |-> "returned", value |-> Sentinel]
    ELSE HandleOuter(e)

\* transaction.category or "Uncategorized"
CategoryOrUncategorized(transaction) ==
    IF transaction.category = None \/ transaction.category = Some(EmptyStr)
    THEN Uncategorized
    ELSE The(transaction.category)

classify_choice_llm_first(transaction, available_categories) ==
    LET rule_suggestion == _apply_rules(_load_default_rules, transaction)
    IN  IF client THEN [path |-> "llm", value |-> <<>>, ml |-> 0]
        ELSE IF rule_suggestion # None
        THEN [path |-> "rule", value |-> <<The(rule_suggestion), 95>>, ml |-> 0]
        ELSE [path |-> "none",
              value |-> <<CategoryOrUncategorized(transaction), 0>>, ml |-> 0]

classify_choice_forgets_category(transaction, available_categories) ==
    LET rule_suggestion == _apply_rules(_load_default_rules, transaction)
    IN  IF rule_suggestion # None
        THEN [path |-> "rule", value |-> <<The(rule_suggestion), 95>>, ml |-> 0]
        ELSE IF client THEN [path |-> "llm", value |-> <<>>, ml |-> 0]
        ELSE [path |-> "none", value |-> Sentinel, ml |-> 0]

\* classify: the path that answers, its value when it answers at once, and
\* whether the statistical model was consulted
classify_choice(transaction, available_categories) ==
    LET rule_suggestion == _apply_rules(_load_default_rules, transaction)
        ml_suggestion == _classify_with_ml(transaction, available_categories)
        ml == IF ml_model # None THEN 1 ELSE 0
    IN  IF rule_suggestion # None
        THEN [path |-> "rule", value |-> <<The(rule_suggestion), 95>>, ml |-> 0]
        ELSE IF ml_model # None /\ ml_suggestion[2] > 80
        THEN [path |-> "ml", value |-> ml_suggestion, ml |-> ml]
        ELSE IF client THEN [path |-> "llm", value |-> <<>>, ml |-> ml]
        ELSE [path |-> "none",
              value |-> <<CategoryOrUncategorized(transaction), 0>>, ml |-> ml]

-----------------------------------------------------------------------------
(* TransactionClassifier: classify and the tool-use conversation *)

NoTransaction == [payee |-> <<>>, category |-> None, account_fields |-> FALSE]

NoResult == [status |-> "none", value |-> <<>>]

Prompt == [role |-> "user", kind |-> "prompt", content |-> <<>>]

Prefill == [role |-> "assistant", kind |-> "prefill", content |-> <<>>]

\* the locals of _classify_with_llm and _web_search are gone when classify
\* returns; the last response and the exception met are kept on record
Finish(r, e, last) ==
    /\ cpc' = "done"
    /\ cresult' = r
    /\ exc' = e
    /\ response' = last
    /\ messages' = <<>>
    /\ tool_results' = <<>>
    /\ tool_i' = 0
    /\ attempt' = 0
    /\ sleeps' = <<>>

\* classify(transaction, available_categories), up to its return or to the
\* first completion request.  On the LLM path the prompt is built first:
\* transaction.account_name raises AttributeError when the transaction has no
\* such attribute, and the outer handler ends the call.
Classify(transaction, available_categories) ==
    /\ cpc = "idle"
    /\ txn' = transaction
    /\ avail' = available_categories
    /\ webCalls' = 0
    /\ LET choice == classify_choice(transaction, available_categories)
       IN  /\ mlCalls' = choice.ml
           /\ IF choice.path = "llm" /\ transaction.account_fields
              THEN /\ cpc' = "await"
                   /\ messages' = <<Prompt, Prefill>>
                   /\ llmCalls' = 1
                   /\ UNCHANGED <<cresult, exc, response, tool_results, tool_i,
                                  attempt, sleeps>>
              ELSE IF choice.path = "llm"
              THEN /\ Finish(HandleOuter("AttributeError"), "AttributeError",
                             NoResponse)
                   /\ llmCalls' = 0
              ELSE /\ Finish([status |-> "returned", value |-> choice.value],
                             "none", NoResponse)
                   /\ llmCalls' = 0
    /\ UNCHANGED <<client, notClassifier>>

\* as if the loop gave up with the sentinel when a second round is requested
CreateReturns_capped(r) ==
    /\ cpc = "await"
    /\ tool_use_blocks(r) # <<>> => llmCalls <= MaxRounds
    /\ IF r.stop_reason = "tool_use" /\ tool_use_blocks(r) # <<>> /\ llmCalls < 2
       THEN /\ cpc' = "tools"
            /\ response' = r
            /\ messages' = Append(messages, [role |-> "assistant",
                                  kind |-> "response", content |-> r.content])
            /\ tool_results' = <<>>
            /\ tool_i' = 1
            /\ UNCHANGED <<cresult, exc, attempt, sleeps>>
       ELSE IF r.stop_reason = "tool_use" /\ tool_use_blocks(r) # <<>>
       THEN Finish([status |-> "returned", value |-> Sentinel], "none", r)
       ELSE LET o == ParseAnswer(response_text(r), avail)
            IN  Finish(IF o.exc = "none"
                       THEN [status |-> "returned", value |-> o.value]
                       ELSE HandleInner(o.exc),
                       o.exc, r)
    /\ UNCHANGED <<client, txn, avail, llmCalls, webCalls, mlCalls, notClassifier>>

\* messages.create returns r.  A response that stops for tool use and holds
\* tool invocations opens a tool round; any other response is the final
\* answer and is parsed.
CreateReturns(r) ==
    /\ cpc = "await"
    /\ tool_use_blocks(r) # <<>> => llmCalls <= MaxRounds
    /\ IF r.stop_reason = "tool_use" /\ tool_use_blocks(r) # <<>>
       THEN /\ cpc' = "tools"
            /\ response' = r
            /\ messages' = Append(messages, [role |-> "assistant",
                                  kind |-> "response", content |-> r.content])
            /\ tool_results' = <<>>
            /\ tool_i' = 1
            /\ UNCHANGED <<cresult, exc, attempt, sleeps>>
       ELSE LET o == ParseAnswer(response_text(r), avail)
            IN  Finish(IF o.exc = "none"
                       THEN [status |-> "returned", value |-> o.value]
                       ELSE HandleInner(o.exc),
                       o.exc, r)
    /\ UNCHANGED <<client, txn, avail, llmCalls, webCalls, mlCalls, notClassifier>>

\* messages.create raises (a transport failure)
CreateRaises ==
    /\ cpc = "await"
    /\ Finish(HandleOuter("APIConnectionError"), "APIConnectionError", NoResponse)
    /\ UNCHANGED <<client, txn, avail, llmCalls, webCalls, mlCalls, notClassifier>>

\* the next tool invocation: tool_use_block.input["query"], then the call
\* of _web_search
ToolInvocation ==
    /\ cpc = "tools"
    /\ IF tool_use_blocks(response)[tool_i].has_query
       THEN /\ cpc' = "search"
            /\ attempt' = 0
            /\ sleeps' = <<>>
            /\ webCalls' = webCalls + 1
            /\ UNCHANGED <<cresult, exc, response, messages, tool_results,
                           tool_i>>
       ELSE /\ Finish(HandleOuter("KeyError"), "KeyError", response)
            /\ UNCHANGED webCalls
    /\ UNCHANGED <<client, txn, avail, llmCalls, mlCalls, notClassifier>>

\* as if a lookup that failed contributed no tool result
WebSearchReturns_drops_failures(content) ==
    LET block == tool_use_blocks(response)[tool_i]
        all == IF content = "failed" THEN tool_results
               ELSE Append(tool_results, [type |-> "tool_result",
                                          tool_use_id |-> block.id,
                                          content |-> content])
    IN  /\ attempt' = 0
        /\ sleeps' = <<>>
        /\ IF tool_i < Len(tool_use_blocks(response))
           THEN /\ cpc' = "tools"
                /\ tool_i' = tool_i + 1
                /\ tool_results' = all
                /\ UNCHANGED <<messages, llmCalls>>
           ELSE /\ cpc' = "await"
                /\ tool_i' = 0
                /\ tool_results' = <<>>
                /\ messages' = messages \o
                       << [role |-> "user", kind |-> "tool_results",
                           content |-> all], Prefill >>
                /\ llmCalls' = llmCalls + 1
        /\ UNCHANGED <<cresult, exc, response>>

\* _web_search returns content: the tool result is appended; after the last
\* invocation of the round the results and the prefill are appended to the
\* conversation and the next completion request is issued
WebSearchReturns(content) ==
    LET block == tool_use_blocks(response)[tool_i]
        all == Append(tool_results, [type |-> "tool_result",
                                     tool_use_id |-> block.id,
                                     content |-> content])
    IN  /\ attempt' = 0
        /\ sleeps' = <<>>
        /\ IF tool_i < Len(tool_use_blocks(response))
           THEN /\ cpc' = "tools"
                /\ tool_i' = tool_i + 1
                /\ tool_results' = all
                /\ UNCHANGED <<messages, llmCalls>>
           ELSE /\ cpc' = "await"
                /\ tool_i' = 0
                /\ tool_results' = <<>>
                /\ messages' = messages \o
                       << [role |-> "user", kind |-> "tool_results",
                           content |-> all], Prefill >>
                /\ llmCalls' = llmCalls + 1
        /\ UNCHANGED <<cresult, exc, response>>

\* an attempt of _web_search gets its answer
WebSearchAttemptSucceeds ==
    /\ cpc = "search"
    /\ WebSearchReturns("results")
    /\ UNCHANGED <<client, txn, avail, webCalls, mlCalls, notClassifier>>

\* as if the wait were 0.5s after every failed attempt, the last included
WebSearchAttemptFails_constant_wait ==
    /\ cpc = "search"
    /\ IF attempt < max_retries - 1
       THEN /\ sleeps' = Append(sleeps, 5)
            /\ attempt' = attempt + 1
            /\ UNCHANGED <<cpc, cresult, exc, response, messages, tool_results,
                           tool_i, llmCalls>>
       ELSE WebSearchReturns("failed")
    /\ UNCHANGED <<client, txn, avail, webCalls, mlCalls, notClassifier>>

\* an attempt of _web_search raises: sleep and retry, or after the last
\* attempt return the failure notice
WebSearchAttemptFails ==
    /\ cpc = "search"
    /\ IF attempt < max_retries - 1
       THEN /\ sleeps' = Append(sleeps, 5 * 2 ^ attempt)
            /\ attempt' = attempt + 1
            /\ UNCHANGED <<cpc, cresult, exc, response, messages, tool_results,
                           tool_i, llmCalls>>
       ELSE WebSearchReturns("failed")
    /\ UNCHANGED <<client, txn, avail, webCalls, mlCalls, notClassifier>>

\* the caller takes the result
ClassifyReturns ==
    /\ cpc = "done"
    /\ cpc' = "idle"
    /\ cresult' = NoResult
    /\ exc' = "none"
    /\ response' = NoResponse
    /\ txn' = NoTransaction
    /\ avail' = <<>>
    /\ llmCalls' = 0
    /\ webCalls' = 0
    /\ mlCalls' = 0
    /\ UNCHANGED <<client, messages, tool_results, tool_i, attempt, sleeps,
                   notClassifier>>

-----------------------------------------------------------------------------
(* QuickenReader.read_transactions *)

\* Dates are days since 1970-01-01 and timestamps are whole seconds; the local
\* time zone is UTC, so that datetime.fromtimestamp and datetime.timestamp are
\* inverse to each other as they are in any zone without a clock change.
SecondsPerDay == 86400

\* Core Data reference date (Jan 1, 2001 00:00:00 UTC)
CORE_DATA_EPOCH == 978307200

\* 2001-01-01 as a date
Jan1_2001 == 11323

Dec31 == Jan1_2001 - 1

Jan1 == Jan1_2001

Jan2 == Jan1_2001 + 1

Days == {Dec31, Jan1, Jan2}

\* core_data_timestamp_to_date(timestamp)
core_data_timestamp_to_date(timestamp) ==
    (timestamp + CORE_DATA_EPOCH) \div SecondsPerDay

\* datetime.combine(start_date, datetime.min.time()).timestamp() - CORE_DATA_EPOCH
start_timestamp(start_date) == start_date * SecondsPerDay - CORE_DATA_EPOCH

\* datetime.combine(end_date, datetime.max.time()).timestamp() - CORE_DATA_EPOCH:
\* 23:59:59.999999 of the day; a whole-second timestamp is <= it exactly when
\* it is <= 23:59:59 of the day
end_timestamp(end_date) ==
    end_date * SecondsPerDay + (SecondsPerDay - 1) - CORE_DATA_EPOCH

\* ZENTEREDDATE: NULL, Dec 31 00:00:00, Dec 31 23:59:59, Jan 2 00:00:00
EnteredDates ==
    { NULL, Some(start_timestamp(Dec31)), Some(end_timestamp(Dec31)),
      Some(start_timestamp(Jan2)) }

\* ZPOSTEDDATE: NULL, Jan 1 00:00:00 (the timestamp 0), Jan 1 12:00:00
PostedDates ==
    { NULL, Some(start_timestamp(Jan1)),
      Some(start_timestamp(Jan1) + SecondsPerDay \div 2) }

\* ZAMOUNT, in cents
Amounts == { NULL, Some(-2500) }

ZTransactionRows ==
    [entered_date : EnteredDates, posted_date : PostedDates, amount : Amounts]

\* the ZTRANSACTION table the reader finds, by Z_PK
ZTransactionTables == [1..MaxRows -> ZTransactionRows]

\* start_date, end_date: Optional[date]
Queries == [start_date : {None, Some(Dec31), Some(Jan1)},
            end_date : {None, Some(Dec31), Some(Jan1)}]

\* `x if x else y` on a timestamp: None and 0 are false
Truthy(timestamp) == timestamp # None /\ The(timestamp) # 0

\* WHERE t.ZAMOUNT IS NOT NULL [AND t.ZENTEREDDATE >= ?] [AND t.ZENTEREDDATE <= ?];
\* a comparison with NULL is not true
Where(table, q) ==
    { id \in DOMAIN table :
        /\ table[id].amount # NULL
        /\ q.start_date # None =>
             /\ table[id].entered_date # NULL
             /\ The(table[id].entered_date) >= start_timestamp(The(q.start_date))
        /\ q.end_date # None =>
             /\ table[id].entered_date # NULL
             /\ The(table[id].entered_date) <= end_timestamp(The(q.end_date)) }

\* ORDER BY t.ZENTEREDDATE DESC: NULL sorts after every value; rows with the
\* same ZENTEREDDATE come in any order
MayPrecede(r1, r2) ==
    \/ r2.entered_date = NULL
    \/ /\ r1.entered_date # NULL
       /\ The(r1.entered_date) >= The(r2.entered_date)

OrderBy(table, ids) ==
    { o \in [1..Cardinality(ids) -> ids] :
        /\ \A i, j \in DOMAIN o : i # j => o[i] # o[j]
        /\ \A i, j \in DOMAIN o : i < j => MayPrecede(table[o[i]], table[o[j]]) }

\* timestamp = posted_date if posted_date else entered_date;
\* trans_date = core_data_timestamp_to_date(timestamp) if timestamp else today
trans_date(row, today) ==
    LET timestamp == IF Truthy(row.posted_date) THEN row.posted_date
                     ELSE row.entered_date
    IN  IF Truthy(timestamp) THEN core_data_timestamp_to_date(The(timestamp))
        ELSE today

\* the Transaction built from a row (its id, date and amount)
TransactionOf(table, id, today) ==
    [id |-> id, date |-> trans_date(table[id], today),
     amount |-> The(table[id].amount)]

\* read_transactions(start_date, end_date), on a day `today`, the rows coming
\* from SQLite in the order `o`
ReadTransactions(q, today) ==
    /\ rpc = "idle"
    /\ \E o \in OrderBy(ztransaction, Where(ztransaction, q)) :
         transactions' = [i \in DOMAIN o |-> TransactionOf(ztransaction, o[i], today)]
    /\ query' = q
    /\ rpc' = "returned"
    /\ UNCHANGED <<ztransaction, notReader>>

NoQuery == [start_date |-> None, end_date |-> None]

\* the caller takes the list
ReaderContinues ==
    /\ rpc = "returned"
    /\ rpc' = "idle"
    /\ transactions' = <<>>
    /\ query' = NoQuery
    /\ UNCHANGED <<ztransaction, notReader>>

-----------------------------------------------------------------------------
(* main: one run of the command line *)

\* c.ZNAME of the row read_transactions joins to a transaction: the name of
\* the label its linkage row is tagged with, None without row or tag
CategoryOf(c, transaction_id) ==
    LET tags == UNION { r.ZCATEGORYTAG : r \in { x \in c : x.ZPARENT = transaction_id } }
        names == { t.ZNAME : t \in { x \in ZTAG : x.Z_PK \in tags } }
    IN  IF names = {} THEN None ELSE Some(CHOOSE n \in names : TRUE)

\* the lists read_transactions may return for some date range: transactions
\* of ZTRANSACTION, each once
TransactionLists ==
    { l \in SeqsUpTo({ t.Z_PK : t \in ZTRANSACTION }, Cardinality(ZTRANSACTION)) :
        \A i, j \in 1..Len(l) : l[i] = l[j] => i = j }

\* what classify may hand back to main: (suggested_category, confidence)
ClassifyOutcomes ==
    {Groceries, Dining, groceries, Transfer, GasAndFuel, Uncategorized}
        \X {0, 50, 60, 95}

\* not t.category or t.category == "Uncategorized"
IsUncategorized(category) ==
    category = None \/ The(category) = EmptyStr \/ The(category) = Uncategorized

\* create_backup(quicken_file): the package is copied
MainBackup ==
    /\ mpc = "start"
    /\ ~dry_run
    /\ backup' = Some(db)
    /\ mpc' = "read"
    /\ UNCHANGED <<dry_run, db_at_start, uncategorized, suggestions,
                   wvars, cvars, rvars, xvars>>

\* create_backup raises (the copy fails): main ends there
MainBackupRaises ==
    /\ mpc = "start"
    /\ ~dry_run
    /\ mpc' = "exited"
    /\ UNCHANGED <<dry_run, db_at_start, backup, uncategorized, suggestions,
                   wvars, cvars, rvars, xvars>>

\* read_transactions, get_all_categories, the uncategorized list; main
\* returns when it is empty
MainRead(list) ==
    /\ mpc = "read" \/ (mpc = "start" /\ dry_run)
    /\ LET todo == SelectSeq(list, LAMBDA id : IsUncategorized(CategoryOf(db, id)))
       IN  /\ uncategorized' = todo
           /\ mpc' = IF todo = <<>> THEN "exited" ELSE "classify"
    /\ suggestions' = <<>>
    /\ UNCHANGED <<dry_run, db_at_start, backup, wvars, cvars, rvars, xvars>>

\* one iteration of the classification loop
MainClassify(outcome) ==
    /\ mpc = "classify"
    /\ uncategorized # <<>>
    /\ suggestions' = IF outcome[2] > 50
                      THEN Append(suggestions, <<Head(uncategorized), outcome[1],
                                                 outcome[2]>>)
                      ELSE suggestions
    /\ uncategorized' = Tail(uncategorized)
    /\ UNCHANGED <<mpc, dry_run, db_at_start, backup, wvars, cvars, rvars, xvars>>

\* as if the suggestions were applied whatever --dry-run says
MainAfterLoop_ignores_dry_run ==
    /\ mpc = "classify"
    /\ uncategorized = <<>>
    /\ mpc' = IF suggestions = <<>> THEN "exited" ELSE "apply"
    /\ UNCHANGED <<dry_run, db_at_start, backup, uncategorized, suggestions,
                   wvars, cvars, rvars, xvars>>

\* after the loop: return without suggestions; in a dry run print and
\* return; otherwise go on to apply
MainAfterLoop ==
    /\ mpc = "classify"
    /\ uncategorized = <<>>
    /\ mpc' = IF suggestions = <<>> \/ dry_run THEN "exited" ELSE "apply"
    /\ UNCHANGED <<dry_run, db_at_start, backup, uncategorized, suggestions,
                   wvars, cvars, rvars, xvars>>

\* updates = {txn.id: category for txn, category, _ in suggestions.values()}
UpdatesOf(s) == [i \in 1..Len(s) |-> <<s[i][1], s[i][2]>>]

\* writer.update_categories(updates) is called
MainApply ==
    /\ mpc = "apply"
    /\ UpdateCategoriesBegin(UpdatesOf(suggestions))

\* update_categories has returned or raised: main reports and ends
MainEnds ==
    /\ mpc = "apply"
    /\ pc = "returned"
    /\ mpc' = "exited"
    /\ pc' = "idle"
    /\ ret' = NoRet
    /\ UNCHANGED <<dry_run, db_at_start, backup, uncategorized, suggestions,
                   db, conn, updates, idx, results, cvars, rvars, xvars>>

-----------------------------------------------------------------------------
(* Two write-back calls on one database file *)

\* Each caller runs update_category on a connection of its own, one SQL
\* statement at a time (update_categories runs the same statements for each
\* of its items).  sqlite3 runs the SELECTs outside any transaction; the
\* first INSERT or UPDATE begins one and takes SQLite's write lock, which
\* commit or close releases.  db holds the committed rows.
Callers == {"A", "B"}

Other(p) == CHOOSE q \in Callers : q # p

\* category names the concurrent callers pass
ConcurrentNames == {Groceries, Dining, Transfer}

\* a caller about to call update_category(transaction_id, category_name)
CallerStart(transaction_id, category_name) ==
    [pc |-> "start", transaction_id |-> transaction_id,
     category_name |-> category_name, category_id |-> None,
     cashflow_entry_id |-> None, new_pk |-> 0, in_transaction |-> FALSE,
     view |-> {}, result |-> "none"]

\* the rows a statement of caller p sees
Sees(p) == IF procs[p].in_transaction THEN procs[p].view ELSE db

\* the call ends: the finally clause closes the connection, which rolls back
\* what was not committed and releases the lock
CallerEnds(p, result) ==
    /\ procs' = [procs EXCEPT ![p] = [@ EXCEPT !.pc = "done",
                                                !.result = result,
                                                !.in_transaction = FALSE,
                                                !.view = {}]]
    /\ lock' = IF lock = Some(p) THEN None ELSE lock

\* connect; category_id = self._get_category_id(conn, category_name);
\* return False when it is None
XGetCategoryId(p) ==
    /\ procs[p].pc = "start"
    /\ LET category_id == _get_category_id(procs[p].category_name)
       IN  IF category_id = None
           THEN CallerEnds(p, "False")
           ELSE /\ procs' = [procs EXCEPT ![p] = [@ EXCEPT !.pc = "lookup",
                                                  !.category_id = category_id]]
                /\ UNCHANGED lock
    /\ UNCHANGED <<db, conn, pc, updates, idx, results, ret, cvars, rvars, mvars>>

\* SELECT Z_PK FROM ZCASHFLOWTRANSACTIONENTRY WHERE ZPARENT = ?; when there is
\* no row, SELECT ZAMOUNT FROM ZTRANSACTION follows (a table nobody writes)
XLookup(p) ==
    /\ procs[p].pc = "lookup"
    /\ LET found == { r \in Sees(p) : r.ZPARENT = procs[p].transaction_id }
       IN  procs' = [procs EXCEPT ![p] =
                IF found # {}
                THEN [@ EXCEPT !.pc = "update",
                               !.cashflow_entry_id =
                                   Some((CHOOSE r \in found : TRUE).Z_PK)]
                ELSE [@ EXCEPT !.pc = "max"]]
    /\ UNCHANGED <<lock, db, conn, pc, updates, idx, results, ret, cvars, rvars,
                   mvars>>

\* SELECT MAX(Z_PK) FROM ZCASHFLOWTRANSACTIONENTRY; new_pk = max_pk + 1
XMaxPk(p) ==
    /\ procs[p].pc = "max"
    /\ procs' = [procs EXCEPT ![p] = [@ EXCEPT !.pc = "insert",
                                              !.new_pk = MaxPk(Sees(p)) + 1]]
    /\ UNCHANGED <<lock, db, conn, pc, updates, idx, results, ret, cvars, rvars,
                   mvars>>

\* INSERT INTO ZCASHFLOWTRANSACTIONENTRY: begins the transaction and takes
\* the write lock.  Z_PK is the table's primary key: inserting a key that is
\* there raises sqlite3.IntegrityError.
XInsert(p) ==
    /\ procs[p].pc = "insert"
    /\ lock \in {None, Some(p)}
    /\ IF procs[p].new_pk \in { r.Z_PK : r \in Sees(p) }
       THEN CallerEnds(p, "IntegrityError")
       ELSE /\ procs' = [procs EXCEPT ![p] =
                    [@ EXCEPT !.pc = "update",
                              !.in_transaction = TRUE,
                              !.cashflow_entry_id = Some(procs[p].new_pk),
                              !.view = Sees(p) \cup
                                  { [Z_PK |-> procs[p].new_pk,
                                     ZPARENT |-> procs[p].transaction_id,
                                     ZAMOUNT |-> AmountOf(procs[p].transaction_id),
                                     ZCATEGORYTAG |-> NULL] }]]
            /\ lock' = Some(p)
    /\ UNCHANGED <<db, conn, pc, updates, idx, results, ret, cvars, rvars, mvars>>

\* UPDATE ZCASHFLOWTRANSACTIONENTRY SET ZCATEGORYTAG = ? WHERE Z_PK = ?
XUpdate(p) ==
    /\ procs[p].pc = "update"
    /\ lock \in {None, Some(p)}
    /\ procs' = [procs EXCEPT ![p] =
            [@ EXCEPT !.pc = "commit",
                      !.in_transaction = TRUE,
                      !.view = SetCategoryTag(Sees(p), The(procs[p].category_id),
                                              The(procs[p].cashflow_entry_id))]]
    /\ lock' = Some(p)
    /\ UNCHANGED <<db, conn, pc, updates, idx, results, ret, cvars, rvars, mvars>>

\* the other caller holds the write lock for longer than the busy timeout:
\* the INSERT or UPDATE raises sqlite3.OperationalError (database is locked)
XBusy(p) ==
    /\ procs[p].pc \in {"insert", "update"}
    /\ lock = Some(Other(p))
    /\ CallerEnds(p, "OperationalError")
    /\ UNCHANGED <<db, conn, pc, updates, idx, results, ret, cvars, rvars, mvars>>

\* conn.commit(); return True; finally conn.close()
XCommit(p) ==
    /\ procs[p].pc = "commit"
    /\ db' = procs[p].view
    /\ CallerEnds(p, "True")
    /\ UNCHANGED <<conn, pc, updates, idx, results, ret, cvars, rvars, mvars>>

ClassifierIdle ==
    /\ cpc = "idle"
    /\ txn = NoTransaction
    /\ avail = <<>>
    /\ response = NoResponse
    /\ tool_i = 0
    /\ tool_results = <<>>
    /\ messages = <<>>
    /\ attempt = 0
    /\ sleeps = <<>>
    /\ llmCalls = 0
    /\ webCalls = 0
    /\ mlCalls = 0
    /\ cresult = NoResult
    /\ exc = "none"

WriterIdle ==
    /\ db = {}
    /\ conn = Closed
    /\ pc = "idle"
    /\ updates = <<>>
    /\ idx = 0
    /\ results = <<>>
    /\ ret = NoRet

ReaderIdle ==
    /\ ztransaction = <<>>
    /\ rpc = "idle"
    /\ query = NoQuery
    /\ transactions = <<>>

MainIdle ==
    /\ mpc = "idle"
    /\ dry_run = FALSE
    /\ db_at_start = {}
    /\ backup = None
    /\ uncategorized = <<>>
    /\ suggestions = <<>>

ConcurrentIdle ==
    /\ procs = <<>>
    /\ lock = None

\* QuickenWriter(db_path), over a database as write-back may find it
InitWriter ==
    /\ db \in InitialDBs
    /\ conn = Closed
    /\ pc = "idle"
    /\ updates = <<>>
    /\ idx = 0
    /\ results = <<>>
    /\ ret = NoRet
    /\ client = FALSE
    /\ ClassifierIdle
    /\ ReaderIdle
    /\ MainIdle
    /\ ConcurrentIdle

NextWriter ==
    \/ \E t \in TxnIds, n \in CategoryNames : UpdateCategory(t, n)
    \/ \E t \in TxnIds, n \in CategoryNames : UpdateCategoryRaises(t, n)
    \/ \E u \in UpdateDicts : UpdateCategoriesBegin(u)
    \/ UpdateCategoriesItem
    \/ UpdateCategoriesCommit
    \/ UpdateCategoriesRaises
    \/ CallerContinues

SpecWriter == InitWriter /\ [][NextWriter]_vars

\* TransactionClassifier(api_key): client is set iff a key is given
InitClassifier ==
    /\ client \in BOOLEAN
    /\ ClassifierIdle
    /\ WriterIdle
    /\ ReaderIdle
    /\ MainIdle
    /\ ConcurrentIdle

NextClassifier ==
    \/ \E t \in Transactions, c \in CategoryLists : Classify(t, c)
    \/ \E r \in FinalResponses \cup ToolUseResponses : CreateReturns(r)
    \/ CreateRaises
    \/ ToolInvocation
    \/ WebSearchAttemptSucceeds
    \/ WebSearchAttemptFails
    \/ ClassifyReturns

SpecClassifier == InitClassifier /\ [][NextClassifier]_vars

\* The Rule Matcher on its own: transactions as the reader builds them, for
\* which classify returns without a completion request, and more payees.  To the payees
\* above are added one in another case than its pattern, one with a pattern
\* inside a longer word ("ups" in "Startups"), and two that hold patterns of
\* two categories, whose order in the payee is the reverse of their order in
\* the table ("delta" and "shell") or the same ("target" and "starbucks").
RulePayees ==
    Payees \cup
    { <<"N","E","T","F","L","I","X",".","C","O","M">>,
      <<"S","t","a","r","t","u","p","s"," ","C","a","f","e">>,
      <<"D","e","l","t","a"," ","S","h","e","l","l"," ","F","u","e","l">>,
      <<"T","a","r","g","e","t"," ","S","t","a","r","b","u","c","k","s">> }

RuleTransactions ==
    [payee : RulePayees, category : ExistingCategories, account_fields : {FALSE}]

InitRules ==
    /\ client \in BOOLEAN
    /\ ClassifierIdle
    /\ WriterIdle
    /\ ReaderIdle
    /\ MainIdle
    /\ ConcurrentIdle

NextRules ==
    \/ \E t \in RuleTransactions, c \in CategoryLists : Classify(t, c)
    \/ ClassifyReturns

SpecRules == InitRules /\ [][NextRules]_vars

\* The classifier again, for the question of termination: a configured
\* client, transactions no rule matches, and of the final answers only a
\* well-formed one, an unparsable one and an empty response; the payee is the
\* reader's default for a missing payee
Unknown == <<"U","n","k","n","o","w","n">>

LiveTransactions ==
    { t \in Transactions :
        /\ t.payee = Unknown
        /\ _apply_rules(_load_default_rules, t) = None
        /\ t.category = None }

LiveResponses ==
    ToolUseResponses \cup
    { [stop_reason |-> "end_turn", content |-> <<TextBlock(x)>>] :
        x \in { [json |-> "object", category |-> JStr(Groceries),
                 confidence |-> JNum(90)], NoText } }
    \cup { [stop_reason |-> "end_turn", content |-> <<>>] }

InitClassifierLive ==
    /\ client = TRUE
    /\ ClassifierIdle
    /\ WriterIdle
    /\ ReaderIdle
    /\ MainIdle
    /\ ConcurrentIdle

\* a step of a running LLM classification: a request returns or raises, the
\* next invocation is taken up, a lookup attempt succeeds or fails
LlmStep ==
    \/ \E r \in LiveResponses : CreateReturns(r)
    \/ CreateRaises
    \/ ToolInvocation
    \/ WebSearchAttemptSucceeds
    \/ WebSearchAttemptFails

NextClassifierLive ==
    \/ \E t \in LiveTransactions, c \in CategoryLists : Classify(t, c)
    \/ LlmStep
    \/ ClassifyReturns

\* every request made by a running classification returns or raises (the
\* lookups carry a timeout), and the code, being sequential, then goes on
SpecClassifierLive ==
    InitClassifierLive /\ [][NextClassifierLive]_vars /\ WF_vars(LlmStep)

\* QuickenReader(quicken_file), over a ZTRANSACTION table as it may find it
InitReader ==
    /\ ztransaction \in ZTransactionTables
    /\ rpc = "idle"
    /\ query = NoQuery
    /\ transactions = <<>>
    /\ client = FALSE
    /\ ClassifierIdle
    /\ WriterIdle
    /\ MainIdle
    /\ ConcurrentIdle

NextReader ==
    \/ \E q \in Queries, today \in Days : ReadTransactions(q, today)
    \/ ReaderContinues

SpecReader == InitReader /\ [][NextReader]_vars

\* main(quicken_file, start_date, end_date, dry_run, api_key) begins
InitMain ==
    /\ db \in InitialDBs
    /\ conn = Closed
    /\ pc = "idle"
    /\ updates = <<>>
    /\ idx = 0
    /\ results = <<>>
    /\ ret = NoRet
    /\ mpc = "start"
    /\ dry_run \in BOOLEAN
    /\ db_at_start = db
    /\ backup = None
    /\ uncategorized = <<>>
    /\ suggestions = <<>>
    /\ client = FALSE
    /\ ClassifierIdle
    /\ ReaderIdle
    /\ ConcurrentIdle

NextMain ==
    \/ MainBackup
    \/ MainBackupRaises
    \/ \E list \in TransactionLists : MainRead(list)
    \/ \E outcome \in ClassifyOutcomes : MainClassify(outcome)
    \/ MainAfterLoop
    \/ MainApply
    \/ mpc = "apply" /\ UpdateCategoriesItem
    \/ mpc = "apply" /\ UpdateCategoriesCommit
    \/ mpc = "apply" /\ UpdateCategoriesRaises
    \/ MainEnds

SpecMain == InitMain /\ [][NextMain]_vars

\* two callers, each about to call update_category on the same database file
InitConcurrent ==
    /\ db \in InitialDBs
    /\ procs \in [Callers -> { CallerStart(t, n) : t \in TxnIds,
                                                  n \in ConcurrentNames }]
    /\ lock = None
    /\ conn = Closed
    /\ pc = "idle"
    /\ updates = <<>>
    /\ idx = 0
    /\ results = <<>>
    /\ ret = NoRet
    /\ client = FALSE
    /\ ClassifierIdle
    /\ ReaderIdle
    /\ MainIdle

NextConcurrent ==
    \E p \in Callers :
        \/ XGetCategoryId(p)
        \/ XLookup(p)
        \/ XMaxPk(p)
        \/ XInsert(p)
        \/ XUpdate(p)
        \/ XBusy(p)
        \/ XCommit(p)

SpecConcurrent == InitConcurrent /\ [][NextConcurrent]_vars

-----------------------------------------------------------------------------
(* Write-back: C1 .. C5 *)

\* each transaction has at most one linkage row in the table c
AtMostOneLinkage(c) == \A r1, r2 \in c : r1.ZPARENT = r2.ZPARENT => r1 = r2

\* category_name is, letter for letter, the name of a user-assignable label
IsAssignableLabel(category_name) ==
    \E t \in ZTAG : t.ZUSERASSIGNABLE = 1 /\ t.ZNAME = category_name

\* the key of the user-assignable label of that name
LabelKey(category_name) ==
    (CHOOSE t \in ZTAG : t.ZUSERASSIGNABLE = 1 /\ t.ZNAME = category_name).Z_PK

Finished(op) == pc = "returned" /\ ret.op = op

Returned(op) == Finished(op) /\ ret.status = "returned"

\* C1: starting from a database with at most one linkage row per
\* transaction, every state reached by update_category and update_categories
\* calls has at most one linkage row per transaction, in the committed table
\* and in the table as the open connection sees it.
C1_AtMostOneLinkageRow ==
    /\ AtMostOneLinkage(db)
    /\ pc = "batch" => AtMostOneLinkage(conn)

\* C1: update_category has succeeded on a transaction that had a linkage row
\* before the call, and has changed that row
C1_Witness ==
    /\ Returned("update_category")
    /\ ret.value = TRUE
    /\ \E r \in ret.before : r.ZPARENT = ret.args[1]
    /\ db # ret.before

\* C2: an update_category call whose category name is not the exact name of
\* a user-assignable label, if no storage failure interrupts it, returns False,
\* and in every case the committed table is the one before the call.
C2_UnknownCategoryReturnsFalse ==
    (Finished("update_category") /\ ~IsAssignableLabel(ret.args[2]))
        => /\ ret.status = "returned" => ret.value = FALSE
           /\ db = ret.before

\* C2: update_category was called with a label's name in another case, for a
\* transaction that has a linkage row, and returned
C2_Witness ==
    /\ Returned("update_category")
    /\ ret.args[2] = groceries
    /\ \E r \in db : r.ZPARENT = ret.args[1]

BatchIds(u) == { u[i][1] : i \in 1..Len(u) }

TrueIds(u) == { u[i][1] : i \in { j \in 1..Len(u) : IsAssignableLabel(u[j][2]) } }

\* C3: when update_categories returns, the keys of the result are the ids of
\* the batch, an id maps to True iff its name is that of a user-assignable
\* label, every id mapped to True has its linkage row tagged with that label,
\* and every row that differs from the table before the call belongs to an id
\* mapped to True.
C3_BatchResult ==
    Returned("update_categories") =>
        /\ DOMAIN ret.value = BatchIds(ret.args)
        /\ \A i \in 1..Len(ret.args) :
              ret.value[ret.args[i][1]] = IsAssignableLabel(ret.args[i][2])
        /\ \A i \in 1..Len(ret.args) :
              IsAssignableLabel(ret.args[i][2]) =>
                  \E r \in db : /\ r.ZPARENT = ret.args[i][1]
                                /\ r.ZCATEGORYTAG = Some(LabelKey(ret.args[i][2]))
        /\ \A r \in (db \ ret.before) \cup (ret.before \ db) :
              r.ZPARENT \in TrueIds(ret.args)

\* C3: a batch whose first name does not resolve and whose second does has
\* returned
C3_Witness ==
    /\ Returned("update_categories")
    /\ Len(ret.args) = 2
    /\ ret.value[ret.args[1][1]] = FALSE
    /\ ret.value[ret.args[2][1]] = TRUE

\* C4: when a storage failure ends update_categories, the error reaches the
\* caller and the committed table is the one before the call: nothing the
\* batch inserted or updated is kept.
C4_BatchAllOrNothing ==
    (Finished("update_categories") /\ ret.status = "raised") => db = ret.before

\* C4: the failure came after the batch had inserted a linkage row
C4_Witness ==
    /\ Finished("update_categories")
    /\ ret.status = "raised"
    /\ \E r \in ret.value : \A q \in ret.before : q.Z_PK # r.Z_PK

\* C5: an update_category call that follows a successful update_category
\* call with the same arguments, if no storage failure interrupts it, returns
\* True and leaves the committed table as the first call left it, with one
\* linkage row for the transaction, tagged with the category.
C5_UpdateCategoryIdempotent ==
    (Returned("update_category") /\ ret.again) =>
        /\ ret.value = TRUE
        /\ db = ret.before
        /\ Cardinality({ r \in db : r.ZPARENT = ret.args[1] }) = 1
        /\ \A r \in db : r.ZPARENT = ret.args[1] =>
              r.ZCATEGORYTAG = Some(LabelKey(ret.args[2]))

\* C5: the second of two equal calls has returned, for a transaction whose
\* linkage row the first call created
C5_Witness ==
    /\ Returned("update_category")
    /\ ret.again
    /\ \E r \in db :
          /\ r.ZPARENT = ret.args[1]
          /\ \A d \in InitialDBs : \A q \in d : q.Z_PK # r.Z_PK

-----------------------------------------------------------------------------
(* Classification: C6 .. C10 *)

\* the Rule Matcher's answer for the transaction at hand
RuleAnswer == _apply_rules(_load_default_rules, txn)

\* classify has returned through the LLM path: no rule matched, no model
\* answered, a client is configured
LlmPathEnded == cpc = "done" /\ RuleAnswer = None /\ client

\* the last response was taken as the final answer and parsed
FinalAnswerParsed ==
    /\ cpc = "done"
    /\ response # NoResponse
    /\ ~(response.stop_reason = "tool_use" /\ tool_use_blocks(response) # <<>>)

FinalAnswer == response_text(response)

\* C6: whenever the Rule Matcher matches the payee, classify has returned at
\* once with the rule's category and confidence 0.95, and no statistical
\* model call, completion request or web lookup was made, with or without a
\* client.
C6_RuleMatchWins ==
    (cpc # "idle" /\ RuleAnswer # None) =>
        /\ cpc = "done"
        /\ cresult = [status |-> "returned", value |-> <<The(RuleAnswer), 95>>]
        /\ llmCalls = 0
        /\ webCalls = 0
        /\ mlCalls = 0

\* C6: a rule has answered although a client is configured
C6_Witness ==
    /\ cpc = "done"
    /\ client
    /\ RuleAnswer = Some(GasAndFuel)
    /\ cresult.value = <<GasAndFuel, 95>>

\* C7: with no rule match, no statistical model and no client, classify has
\* returned (not raised) the transaction's category, or "Uncategorized" when
\* that is None or empty, with confidence 0.0, and no completion request or
\* web lookup was made.
C7_NoPathFallback ==
    (cpc # "idle" /\ RuleAnswer = None /\ ml_model = None /\ ~client) =>
        /\ cpc = "done"
        /\ cresult.status = "returned"
        /\ cresult.value[2] = 0
        /\ cresult.value[1] =
              IF txn.category = None \/ txn.category = Some(EmptyStr)
              THEN Uncategorized ELSE The(txn.category)
        /\ llmCalls = 0
        /\ webCalls = 0

\* C7: without a client, an existing category came back with confidence 0.0
C7_Witness ==
    /\ cpc = "done"
    /\ ~client
    /\ RuleAnswer = None
    /\ txn.category = Some(Dining)
    /\ cresult.value = <<Dining, 0>>

\* the final answer holds no confidence field
ConfidenceMissing ==
    /\ FinalAnswerParsed
    /\ FinalAnswer.json = "object"
    /\ FinalAnswer.confidence.t = "missing"

AnswerCategory ==
    Strip(IF FinalAnswer.category.t = "missing" THEN EmptyStr
          ELSE FinalAnswer.category.s)

AnswerConfidence == float(DictGet(FinalAnswer.confidence, JNum(0))).n

IndexesIgnoringCase ==
    { i \in 1..Len(avail) : Lower(avail[i]) = Lower(AnswerCategory) }

\* C9: for a final answer that parses, the result is the answer's (trimmed)
\* category with the answer's confidence when it is in the valid list, else
\* the first entry of the valid list that equals it ignoring case with the
\* answer's confidence, else ("Uncategorized", 0.0); and the LLM path returns
\* no category outside the valid list with a confidence other than 0.
C9_CategoryValidated ==
    /\ (LlmPathEnded /\ FinalAnswerParsed /\ exc = "none") =>
          IF InList(AnswerCategory, avail)
          THEN cresult.value = <<AnswerCategory, AnswerConfidence>>
          ELSE IF IndexesIgnoringCase # {}
          THEN cresult.value =
                  << avail[CHOOSE i \in IndexesIgnoringCase :
                              \A j \in IndexesIgnoringCase : i <= j],
                     AnswerConfidence >>
          ELSE cresult.value = Sentinel
    /\ (LlmPathEnded /\ cresult.status = "returned" /\ cresult.value[2] # 0) =>
          InList(cresult.value[1], avail)

\* C9: the answer "dining" met a list that spells it DINING and Dining, and
\* the first spelling came back
C9_Witness ==
    /\ LlmPathEnded
    /\ FinalAnswerParsed
    /\ exc = "none"
    /\ AnswerCategory = dining
    /\ cresult.value = <<DINING, 90>>

\* C10, as claimed: every result classify returns has a confidence in [0, 1].
C10_ConfidenceInUnitInterval ==
    (cpc = "done" /\ cresult.status = "returned") =>
        (0 <= cresult.value[2] /\ cresult.value[2] <= 100)

-----------------------------------------------------------------------------
(* Web lookup and rule table: C11, C12 *)

\* the waits of _web_search, in tenths of a second, in order
Backoff == <<5, 10>>

\* the tool result a step has just produced: the last of the round's results,
\* which are in tool_results while the round goes on and in the conversation
\* once it is over
NewToolResult ==
    IF cpc' = "tools"
    THEN tool_results'[Len(tool_results')]
    ELSE LET c == messages'[Len(messages') - 1].content IN c[Len(c)]

\* a tool result of the conversation or of the running round
ToolResultsSoFar ==
    { tool_results[i] : i \in 1..Len(tool_results) } \cup
    UNION { { messages[i].content[j] : j \in 1..Len(messages[i].content) } :
            i \in { k \in 1..Len(messages) : messages[k].kind = "tool_results" } }

\* C11: while a web lookup runs, the request in flight is the 1st, 2nd or 3rd
\* and the waits made so far are 0.5s after the first failure and 1.0s after
\* the second; a failed attempt that is not the third is followed by the next
\* wait and the next attempt; a successful attempt ends the lookup at once
\* with its result; the lookup ends with the failure notice only after the
\* third attempt failed, with no third wait; and the lookup never raises: it
\* ends in a tool result and the classification goes on.
C11_WebSearchRetries ==
    [][cpc = "search" =>
        /\ attempt \in 0..2
        /\ sleeps = SubSeq(Backoff, 1, attempt)
        /\ \/ /\ cpc' = "search"
              /\ attempt < 2
              /\ attempt' = attempt + 1
              /\ sleeps' = Append(sleeps, Backoff[attempt + 1])
           \/ /\ cpc' \in {"tools", "await"}
              /\ exc' = "none"
              /\ NewToolResult.content \in {"results", "failed"}
              /\ NewToolResult.content = "failed" => attempt = 2
      ]_vars

\* C11: a lookup has ended with the failure notice, and the conversation has
\* gone on to the next completion request
C11_Witness ==
    /\ cpc = "await"
    /\ \E r \in ToolResultsSoFar : r.content = "failed"

\* the pattern at position i of the rule table occurs in the case-folded payee
\* of the transaction at hand
PatternOccurs(i) == IsSubstring(_load_default_rules[i][1], Lower(txn.payee))

shell == <<"s","h","e","l","l">>

\* the position of a pattern in the rule table
PositionOf(pattern) ==
    CHOOSE i \in 1..Len(_load_default_rules) : _load_default_rules[i][1] = pattern

\* C12: for every transaction classify is called with, the Rule Matcher
\* answers None exactly when no pattern of the table is a substring of the
\* case-folded payee, and otherwise answers the category of a pattern that
\* occurs in it and has no occurring pattern before it in the table; when a
\* rule answers, that category is what classify has returned.
C12_FirstPatternWins ==
    cpc # "idle" =>
        LET answer == RuleAnswer
            occurring == { i \in 1..Len(_load_default_rules) : PatternOccurs(i) }
        IN  /\ answer = None <=> occurring = {}
            /\ answer # None =>
                  /\ \E i \in occurring :
                        /\ \A j \in occurring : i <= j
                        /\ _load_default_rules[i][2] = The(answer)
                  /\ cresult.value[1] = The(answer)

delta == <<"d","e","l","t","a">>

\* C12: the payee "Delta Shell Fuel" holds two patterns of different
\* categories, "delta" (Air Travel) first and "shell" (Gas & Fuel) second;
\* shell is listed earlier in the table and wins
C12_Witness ==
    /\ cpc = "done"
    /\ PatternOccurs(PositionOf(shell))
    /\ PatternOccurs(PositionOf(delta))
    /\ PositionOf(shell) < PositionOf(delta)
    /\ _load_default_rules[PositionOf(delta)][2] = AirTravel
    /\ cresult.value = <<GasAndFuel, 95>>

-----------------------------------------------------------------------------
(* Reading: C13, C14 *)

\* read_transactions has returned for a date range [a, b]
ReadRange ==
    rpc = "returned" /\ query.start_date # None /\ query.end_date # None

\* the effective date of a row as the claim defines it: from the posted
\* timestamp when there is one, otherwise from the entered timestamp
EffectiveDate(row) ==
    core_data_timestamp_to_date(
        The(IF row.posted_date # NULL THEN row.posted_date ELSE row.entered_date))

ReturnedIds == { transactions[i].id : i \in 1..Len(transactions) }

\* C13, as claimed: when read_transactions has returned for a range [a, b],
\* every returned transaction has its date in [a, b], and every row with a
\* non-null amount whose effective date lies in [a, b] was returned.
C13_RangeByEffectiveDate ==
    ReadRange =>
        LET a == The(query.start_date)
            b == The(query.end_date)
        IN  /\ \A i \in 1..Len(transactions) :
                  a <= transactions[i].date /\ transactions[i].date <= b
            /\ \A id \in DOMAIN ztransaction :
                  LET row == ztransaction[id]
                  IN  ( /\ row.amount # NULL
                        /\ (row.posted_date # NULL \/ row.entered_date # NULL)
                        /\ a <= EffectiveDate(row)
                        /\ EffectiveDate(row) <= b ) => id \in ReturnedIds

\* C14, as claimed: the dates of the returned list never increase.
C14_DescendingByEffectiveDate ==
    rpc = "returned" =>
        \A i \in 1..(Len(transactions) - 1) :
            transactions[i].date >= transactions[i + 1].date

-----------------------------------------------------------------------------
(* The command line: C15 *)

\* the writer has not been invoked
WriterUntouched == pc = "idle" /\ conn = Closed /\ ret = NoRet

\* C15: throughout a run with --dry-run the writer is not invoked and the
\* linkage table is what it was when the run began, whatever transactions
\* were read and whatever classify answered; in a run without --dry-run,
\* whenever the writer has been invoked or the table differs from what it
\* was at the start, the backup exists and holds the table as it was at the
\* start.
C15_DryRunWritesNothing ==
    mpc # "idle" =>
        /\ dry_run => (WriterUntouched /\ db = db_at_start)
        /\ (~dry_run /\ (~WriterUntouched \/ db # db_at_start)) =>
              backup = Some(db_at_start)

\* C15: a dry run has ended with an accepted suggestion for a transaction
\* that has no linkage row
C15_Witness ==
    /\ mpc = "exited"
    /\ dry_run
    /\ suggestions = << <<1, Groceries, 95>> >>
    /\ db = {}

-----------------------------------------------------------------------------
(* The tool-use conversation: C16, C18 *)

\* the tool rounds of the conversation that are over
RoundsDone == (Len(messages) - 2) \div 3

\* the results answer the invocations one for one, in order, by id
Answers(tool_result_seq, invocations) ==
    /\ Len(tool_result_seq) = Len(invocations)
    /\ \A i \in 1..Len(invocations) :
          /\ tool_result_seq[i].type = "tool_result"
          /\ tool_result_seq[i].tool_use_id = invocations[i].id
          /\ tool_result_seq[i].content \in {"results", "failed"}

\* the invocations of the tool-use response at hand that were already run
InvocationsRun ==
    SubSeq(tool_use_blocks(response), 1,
           tool_i - 1)

\* C16: while an LLM classification runs, the conversation is the prompt and
\* the prefill followed, for each tool round that is over, by the response
\* that requested tools, one user message holding exactly one tool result
\* per invocation of that response, in the same order and with the
\* invocation's id, whether the lookup gave results or its failure notice,
\* and the prefill; the number of completion requests issued is one more than
\* the number of rounds that are over, so the request of round N+1 is issued
\* only after all results of round N are in the conversation; inside a round
\* the response is in the conversation, the results collected so far answer
\* the invocations already run, and one lookup was made per invocation run.
C16_ToolRoundsOrdered ==
    cpc \in {"await", "tools", "search"} =>
        /\ messages[1] = Prompt
        /\ messages[2] = Prefill
        /\ llmCalls = RoundsDone + 1
        /\ \A n \in 1..RoundsDone :
              /\ messages[3 * n].kind = "response"
              /\ tool_use_blocks(messages[3 * n]) # <<>>
              /\ messages[3 * n + 1].kind = "tool_results"
              /\ Answers(messages[3 * n + 1].content,
                         tool_use_blocks(messages[3 * n]))
              /\ messages[3 * n + 2] = Prefill
        /\ cpc = "await" => Len(messages) = 3 * RoundsDone + 2
        /\ cpc \in {"tools", "search"} =>
              /\ Len(messages) = 3 * RoundsDone + 3
              /\ messages[Len(messages)].kind = "response"
              /\ messages[Len(messages)].content = response.content
              /\ tool_i \in 1..Len(tool_use_blocks(response))
              /\ Answers(tool_results, InvocationsRun)
        /\ webCalls =
              Len(tool_results) + (IF cpc = "search" THEN 1 ELSE 0)
              + IF RoundsDone = 0 THEN 0
                ELSE LET Sum[n \in 0..RoundsDone] ==
                           IF n = 0 THEN 0
                           ELSE Sum[n - 1] + Len(messages[3 * n + 1].content)
                     IN  Sum[RoundsDone]

\* C16: the second round's request is out after a first round of two
\* invocations, the first of which failed after its retries
C16_Witness ==
    /\ cpc = "await"
    /\ llmCalls = 2
    /\ Len(messages) = 5
    /\ Len(messages[4].content) = 2
    /\ messages[4].content[1] =
          [type |-> "tool_result", tool_use_id |-> 1, content |-> "failed"]
    /\ messages[4].content[2] =
          [type |-> "tool_result", tool_use_id |-> 2, content |-> "results"]

\* the response asks for tools: it stops for tool use and holds an invocation
RequestsTools(r) == r.stop_reason = "tool_use" /\ tool_use_blocks(r) # <<>>

\* C18: a running LLM classification ends only in one of three ways: a
\* response arrives that does not stop for tool use, a response arrives that
\* stops for tool use but holds no invocation, or an exception is met; a
\* response that asks for tools never ends it, whatever the number of rounds
\* already made, so it cannot end while the service keeps asking for tools
\* and nothing fails.  And once the service stops asking (in the model, after
\* MaxRounds rounds at the latest), the classification returns.
C18_LoopEndsOnlyWhenModelStops ==
    /\ [][(cpc \in {"await", "tools", "search"} /\ cpc' = "done") =>
            \/ exc' # "none"
            \/ /\ cpc = "await"
               /\ response' # NoResponse
               /\ ~RequestsTools(response')
         ]_vars
    /\ (cpc = "await") ~> (cpc = "done" /\ cresult.status = "returned")

\* C18: the classification has returned an answer after MaxRounds tool rounds
C18_Witness ==
    /\ cpc = "done"
    /\ llmCalls = MaxRounds + 1
    /\ exc = "none"
    /\ ~RequestsTools(response)
    /\ response.stop_reason = "end_turn"
    /\ cresult.value = <<Groceries, 90>>

-----------------------------------------------------------------------------
(* Concurrent write-back: C17 *)

\* C17, as claimed: whatever the interleaving of two concurrent write-back
\* calls, the committed linkage table never holds two rows for the same
\* transaction nor two rows with the same key.
C17_NoDuplicateUnderConcurrency ==
    \A r1, r2 \in db :
        (r1.ZPARENT = r2.ZPARENT \/ r1.Z_PK = r2.Z_PK) => r1 = r2

-----------------------------------------------------------------------------
(* Referential integrity and valid categories: C19, C20 *)

\* C19, as claimed: every committed linkage row refers to an existing
\* transaction row and carries that transaction's amount.
C19_LinkageRefersToTransaction ==
    \A r \in db :
        \E t \in ZTRANSACTION : t.Z_PK = r.ZPARENT /\ t.ZAMOUNT = r.ZAMOUNT

\* C20, as claimed: every category classify has returned with a confidence
\* above 0 is one of the available categories of the call.
C20_ReturnedCategoryIsValid ==
    (cpc = "done" /\ cresult.status = "returned" /\ cresult.value[2] > 0) =>
        InList(cresult.value[1], avail)

=============================================================================
